---- MODULE Spec2Model ----
(***************************************************************************)
(* A model of tmux_wrapper.py: the completion-detection poller             *)
(* (wait_for_output_completion), its two text helpers                      *)
(* (_trim_output_to_command, strip_ansi_escape_sequences) and the session  *)
(* probes (capture_tmux_output, session_exists).                           *)
(*                                                                         *)
(* Text is a sequence of character codes (Python str of code points), so   *)
(* that the regular expression's character ranges, str.split, str.strip,   *)
(* str.endswith and the "in" operator are modelled by what they do.        *)
(***************************************************************************)
EXTENDS Integers, Sequences, FiniteSets, TLC

\* ------------------------------------------------------------------ text

\* Character codes that occur in the source.
ESC == 27
NL == 10
SP == 32
Hash == 35
Dollar == 36
LParen == 40
RParen == 41
Zero == 48
Greater == 62
LBracket == 91
RBracket == 93
Letter_a == 97
Letter_c == 99
Letter_h == 104
Letter_i == 105
Letter_m == 109
Letter_n == 110
Letter_p == 112
Letter_r == 114
Letter_y == 121

\* Python's None for an Optional[str] argument: a value no text is equal to.
None == << -1 >>

\* The empty str.
Empty == << >>

\* bool(s) of an Optional[str]: None and "" are falsy.
Truthy(s) == s # None /\ s # Empty

Min(S) == CHOOSE x \in S : \A y \in S : x <= y

Max(S) == CHOOSE x \in S : \A y \in S : x >= y

\* str.isspace for the code points below 256.
Whitespace == (9 .. 13) \cup (28 .. 32) \cup {133, 160}

\* s.strip(): leading and trailing whitespace removed.
Strip(s) ==
  LET keep == {i \in 1 .. Len(s) : s[i] \notin Whitespace}
  IN  IF keep = {} THEN Empty ELSE SubSeq(s, Min(keep), Max(keep))

\* sub in s
Contains(s, sub) ==
  \E i \in 0 .. (Len(s) - Len(sub)) : SubSeq(s, i + 1, i + Len(sub)) = sub

\* s.endswith(suffix)
EndsWith(s, suffix) ==
  /\ Len(suffix) <= Len(s)
  /\ SubSeq(s, Len(s) - Len(suffix) + 1, Len(s)) = suffix

\* s.split('\n'): the list of lines, [''] for the empty str.
RECURSIVE SplitLines(_)
SplitLines(s) ==
  LET nls == {i \in 1 .. Len(s) : s[i] = NL}
  IN  IF nls = {} THEN << s >>
      ELSE << SubSeq(s, 1, Min(nls) - 1) >>
             \o SplitLines(SubSeq(s, Min(nls) + 1, Len(s)))

\* '\n'.join(lines)
RECURSIVE JoinLines(_)
JoinLines(lines) ==
  IF Len(lines) = 0 THEN Empty
  ELSE IF Len(lines) = 1 THEN lines[1]
  ELSE lines[1] \o << NL >> \o JoinLines(Tail(lines))

\* ------------------------------------------- _trim_output_to_command

\* A scan that stops at the first line holding the command, not the last.
RECURSIVE ScanForward(_, _, _)
ScanForward(lines, command, idx) ==
  IF idx > Len(lines) THEN 0
  ELSE IF Contains(lines[idx], command) THEN idx
  ELSE ScanForward(lines, command, idx + 1)

\* for idx in range(len(lines) - 1, -1, -1): the (1-based) index of the first
\* line, scanning backward from idx, that holds the command; 0 when none does.
RECURSIVE ScanBackward(_, _, _)
ScanBackward(lines, command, idx) ==
  IF idx < 1 THEN 0
  ELSE IF Contains(lines[idx], command) THEN idx
  ELSE ScanBackward(lines, command, idx - 1)

\* The first occurrence instead of the last.
FoundLine_First(lines, command) == ScanForward(lines, command, 1)

\* The index the loop of _trim_output_to_command returns from.
FoundLine(lines, command) == ScanBackward(lines, command, Len(lines))

\* A trim that gives the empty str when the command is not found.
TrimOutputToCommand_Drop(output, command) ==
  IF ~Truthy(command) \/ output = Empty THEN Empty
  ELSE LET lines == SplitLines(output)
           idx == FoundLine(lines, command)
       IN  IF idx > 0 THEN JoinLines(SubSeq(lines, idx, Len(lines))) ELSE Empty

TrimOutputToCommand(output, command) ==
  IF ~Truthy(command) \/ output = Empty THEN output
  ELSE LET lines == SplitLines(output)
           idx == FoundLine(lines, command)
       IN  IF idx > 0 THEN JoinLines(SubSeq(lines, idx, Len(lines))) ELSE output

\* --------------------------------------- strip_ansi_escape_sequences

\* The character classes of ANSI_ESCAPE_PATTERN: \x1B[@-_][0-?]*[ -/]*[@-~]
IntroClass == 64 .. 95
ParamClass == 48 .. 63
InterClass == 32 .. 47
FinalClass == 64 .. 126

\* The first index at or after i whose character is not in class.
RECURSIVE SkipClass(_, _, _)
SkipClass(s, i, class) ==
  IF i <= Len(s) /\ s[i] \in class THEN SkipClass(s, i + 1, class) ELSE i

\* The index of the last character of the pattern's match starting at i, 0 when
\* the pattern does not match there.  The three classes after the introducer are
\* pairwise disjoint, so the greedy runs are the only way to match.
MatchEnd(s, i) ==
  IF i + 1 <= Len(s) /\ s[i] = ESC /\ s[i + 1] \in IntroClass
  THEN LET j == SkipClass(s, SkipClass(s, i + 2, ParamClass), InterClass)
       IN  IF j <= Len(s) /\ s[j] \in FinalClass THEN j ELSE 0
  ELSE 0

\* A substitution that drops the first match only (count=1).
SubFrom_FirstOnly(s, i) ==
  LET starts == {k \in i .. Len(s) : MatchEnd(s, k) > 0}
  IN  IF starts = {} THEN SubSeq(s, i, Len(s))
      ELSE SubSeq(s, i, Min(starts) - 1)
             \o SubSeq(s, MatchEnd(s, Min(starts)) + 1, Len(s))

\* pattern.sub("", text) from index i: the non-overlapping matches, leftmost
\* first, are dropped and every other character is kept.
RECURSIVE SubFrom(_, _)
SubFrom(s, i) ==
  IF i > Len(s) THEN Empty
  ELSE IF MatchEnd(s, i) > 0 THEN SubFrom(s, MatchEnd(s, i) + 1)
  ELSE << s[i] >> \o SubFrom(s, i + 1)

StripAnsiEscapeSequences(text) == SubFrom(text, 1)

\* ------------------------------------------------------------ the probes

\* The bounds of the model.  Time is counted in poll intervals.
MaxWait == 2
CallTicks == 1
MaxTrimLen == 4
MaxCmdLen == 2
MaxAnsiLen == 6
NProcs == 2

\* time.sleep(poll_interval): one poll interval.
PollInterval == 1

\* subprocess.run(..., timeout=None): the run waits for the child without bound.
NoTimeout == None

\* timeout=5 of capture_tmux_output
CaptureTimeout == << 5 >>

\* What one subprocess.run(args, capture_output=True, text=True, timeout=t) can
\* do: the child exits with status 0 or with another status, the child cannot be
\* started (OSError, e.g. FileNotFoundError), the timeout expires
\* (TimeoutExpired, only with a timeout), or the child never exits and the run
\* never returns (only without a timeout).
RunOutcomes(timeout) ==
  {"exit0", "exitN", "oserror"}
    \cup (IF timeout = NoTimeout THEN {"hang"} ELSE {"expired"})

\* Pane contents "tmux capture-pane -p" can print: empty, a bare prompt, the
\* echoed command, the command and some output, the command, its output and a
\* new prompt, output followed by a prompt without the command, the command
\* and a ">" prompt, a prompt followed by a blank line, a prompt followed by a
\* colour reset, and a pry prompt.
Panes ==
  { Empty,
    << Dollar, SP >>,
    << Dollar, SP, Letter_c >>,
    << Dollar, SP, Letter_c, NL, Letter_h >>,
    << Dollar, SP, Letter_c, NL, Letter_h, NL, Dollar, SP >>,
    << Letter_h, NL, Dollar, SP >>,
    << Letter_c, NL, Greater, SP >>,
    << Dollar, SP, Letter_c, NL, Dollar, SP, NL, NL >>,
    << Dollar, SP, Letter_c, NL, Dollar, SP, ESC, LBracket, Letter_m >>,
    << Letter_p, Letter_r, Letter_y, LParen, Letter_m, Letter_a, Letter_i,
       Letter_n, RParen, Greater, SP >> }

\* The command_sent arguments: None, "" and "c".
Commands == { None, Empty, << Letter_c >> }

\* capture_tmux_output(session_name): result.stdout when the run returns (tmux
\* writes its errors to stderr, so stdout is empty unless the capture worked),
\* "" on TimeoutExpired; an OSError is not caught and propagates.
CaptureTmuxOutput(outcome, pane) ==
  IF outcome = "oserror" THEN [raised |-> TRUE, text |-> Empty]
  ELSE IF outcome = "exit0" THEN [raised |-> FALSE, text |-> pane]
  ELSE [raised |-> FALSE, text |-> Empty]

\* The outcomes of the capture run: tmux exits 0 only for a live session.
CaptureOutcomes(live) ==
  IF live THEN RunOutcomes(CaptureTimeout)
  ELSE RunOutcomes(CaptureTimeout) \ {"exit0"}

\* The results capture_tmux_output can give for a session that is live or not.
Captures(live) ==
  { CaptureTmuxOutput(o, p) : o \in CaptureOutcomes(live), p \in Panes }

\* The outcomes of "tmux has-session", run without a timeout: exit status 0 iff
\* the session is live.
ExistsOutcomes(live) ==
  IF live THEN RunOutcomes(NoTimeout) \ {"exitN"}
  ELSE RunOutcomes(NoTimeout) \ {"exit0"}

\* session_exists: result.returncode == 0
SessionExists(outcome) == outcome = "exit0"

\* ------------------------------------------------- prompt detection

\* prompt_patterns, in the order of the list.
PromptPatterns ==
  << << Letter_p, Letter_r, Letter_y, LParen, Letter_m, Letter_a, Letter_i,
        Letter_n, RParen, Greater >>,
     << RBracket, Dollar >>,
     << RBracket, Hash >>,
     << Hash >>,
     << Dollar >> >>

\* The last element of the split of the text as it is, stripped.
LastLine_Literal(trimmed) ==
  LET lines == SplitLines(trimmed) IN Strip(lines[Len(lines)])

\* trimmed_output.strip().split('\n')[-1].strip() if trimmed_output.strip() else ""
LastLine(trimmed) ==
  IF Strip(trimmed) # Empty
  THEN LET lines == SplitLines(Strip(trimmed)) IN Strip(lines[Len(lines)])
  ELSE Empty

\* The for loop over prompt_patterns from index i: the index of the first
\* pattern clean_last_line ends with, 0 when it ends with none.
RECURSIVE FirstPattern(_, _)
FirstPattern(clean, i) ==
  IF i > Len(PromptPatterns) THEN 0
  ELSE IF EndsWith(clean, PromptPatterns[i]) THEN i
  ELSE FirstPattern(clean, i + 1)

\* Lines 109-115: whether the prompt check of a tick returns.
PromptMatches(trimmed) ==
  FirstPattern(StripAnsiEscapeSequences(LastLine(trimmed)), 1) > 0

\* ------------------------------------------- wait_for_output_completion

VARIABLES
  pc,                  \* where the call of wait_for_output_completion stands
  now,                 \* time.time(), in poll intervals
  start_time,
  elapsed,
  command_sent,        \* argument
  pre_command_output,  \* argument
  last_output,
  current_output,
  output_changed,
  command_seen,
  result,              \* the returned triple, NoResult before the return
  alive,               \* the tmux session exists
  capSite,             \* the call site of the latest capture
  allSame,             \* every capture of line 94 so far equals pre_command_output
  sawPrompt,           \* some capture so far had a last line ending in a prompt
  fpc,                 \* the helper functions' own runs: position,
  fText,               \* text argument,
  fCmd,                \* command argument,
  fOut,                \* result,
  fOut2,               \* result of a second application
  ckind,               \* per invocation of the command line: the subcommand,
  cpc,                 \* where the invocation stands,
  ccmd,                \* its COMMAND or KEYS argument,
  cpre,                \* the pane send-keys captured before sending,
  found,               \* what the first session_exists call returned,
  ncalls,              \* the tmux runs the command body has issued,
  nmutate,             \* the create or send runs it has issued,
  mout,                \* the outcome of its create or send run,
  polled,              \* it has called wait_for_output_completion,
  printed,             \* the texts it has echoed to stdout,
  exit_code,           \* its exit status, << >> while it has not exited
  ncreated             \* the sessions tmux has created under the name

pollVars ==
  << pc, now, start_time, elapsed, command_sent, pre_command_output,
     last_output, current_output, output_changed, command_seen, result, alive,
     capSite, allSame, sawPrompt >>

fnVars == << fpc, fText, fCmd, fOut, fOut2 >>

cliVars ==
  << ckind, cpc, ccmd, cpre, found, ncalls, nmutate, mout, polled, printed,
     exit_code, ncreated >>

vars == << pollVars, fnVars, cliVars >>

NoResult ==
  [returned |-> FALSE, text |-> Empty, timed_out |-> FALSE,
   session_exited |-> FALSE]

\* return text, timed_out, session_exited
Return(text, timed_out, session_exited) ==
  [returned |-> TRUE, text |-> text, timed_out |-> timed_out,
   session_exited |-> session_exited]

FnIdle ==
  /\ fpc = "idle"
  /\ fText = Empty
  /\ fCmd = None
  /\ fOut = Empty
  /\ fOut2 = Empty

\* The invocations of the command line, at most NProcs at a time.
Procs == 1 .. NProcs

\* No invocation of the command line is running.
CliIdle ==
  /\ ckind = [p \in Procs |-> "off"]
  /\ cpc = [p \in Procs |-> "off"]
  /\ ccmd = [p \in Procs |-> Empty]
  /\ cpre = [p \in Procs |-> Empty]
  /\ found = [p \in Procs |-> "none"]
  /\ ncalls = [p \in Procs |-> 0]
  /\ nmutate = [p \in Procs |-> 0]
  /\ mout = [p \in Procs |-> "none"]
  /\ polled = [p \in Procs |-> FALSE]
  /\ printed = [p \in Procs |-> << >>]
  /\ exit_code = [p \in Procs |-> << >>]
  /\ ncreated = 0

\* The call wait_for_output_completion(session_name, command_sent, max_wait_sec,
\* pre_command_output) is about to run.
Init ==
  /\ pc = "start"
  /\ now = 0
  /\ start_time = 0
  /\ elapsed = 0
  /\ command_sent \in Commands
  /\ pre_command_output \in Panes \cup {None}
  /\ last_output = Empty
  /\ current_output = Empty
  /\ output_changed = FALSE
  /\ command_seen = FALSE
  /\ result = NoResult
  /\ alive \in BOOLEAN
  /\ capSite = "none"
  /\ allSame = TRUE
  /\ sawPrompt = FALSE
  /\ FnIdle
  /\ CliIdle

\* A capture whose last line ends with a prompt pattern.
HasPromptLine(text) == PromptMatches(text)

\* Lines 57-78 with an output_changed that starts true whatever the baseline.
Start_AlwaysChanged ==
  /\ pc = "start"
  /\ \E d \in 0 .. CallTicks, c \in Captures(alive) :
       LET initial_output ==
             IF pre_command_output # None THEN pre_command_output ELSE c.text
       IN  /\ start_time' = now
           /\ IF pre_command_output # None
              THEN /\ now' = now
                   /\ capSite' = capSite
                   /\ pc' = "tick"
              ELSE /\ now' = now + d
                   /\ capSite' = "initial"
                   /\ pc' = IF c.raised THEN "raised_capture" ELSE "tick"
           /\ last_output' = initial_output
           /\ output_changed' = TRUE
           /\ command_seen' =
                (Truthy(command_sent) /\ Contains(initial_output, command_sent))
  /\ UNCHANGED << elapsed, command_sent, pre_command_output, current_output,
                  result, alive, allSame, sawPrompt, fnVars, cliVars >>

\* Lines 57-78: the start time, the baseline (the caller's, or a first capture)
\* and the two latches.
Start ==
  /\ pc = "start"
  /\ \E d \in 0 .. CallTicks, c \in Captures(alive) :
       LET initial_output ==
             IF pre_command_output # None THEN pre_command_output ELSE c.text
       IN  /\ start_time' = now
           /\ IF pre_command_output # None
              THEN /\ now' = now
                   /\ capSite' = capSite
                   /\ pc' = "tick"
              ELSE /\ now' = now + d
                   /\ capSite' = "initial"
                   /\ pc' = IF c.raised THEN "raised_capture" ELSE "tick"
           /\ last_output' = initial_output
           /\ output_changed' = (pre_command_output = None)
           /\ command_seen' =
                (Truthy(command_sent) /\ Contains(initial_output, command_sent))
  /\ UNCHANGED << elapsed, command_sent, pre_command_output, current_output,
                  result, alive, allSame, sawPrompt, fnVars, cliVars >>

\* Lines 85-87: the branch of a tick whose elapsed time exceeds max_wait_sec.
TimeoutBranch(e) ==
  \E d \in 0 .. CallTicks, c \in Captures(alive) :
    /\ elapsed' = e
    /\ now' = now + d
    /\ capSite' = "timeout"
    /\ current_output' = c.text
    /\ IF c.raised
       THEN /\ pc' = "raised_capture"
            /\ result' = result
       ELSE /\ pc' = "done"
            /\ result' =
                 Return(TrimOutputToCommand(c.text, command_sent), TRUE, FALSE)
    /\ UNCHANGED << alive >>

\* Line 90: the call of session_exists of a tick.
ExistsBranch(e) ==
  \E d \in 0 .. CallTicks, o \in ExistsOutcomes(alive) :
    /\ elapsed' = e
    /\ now' = now + d
    /\ pc' = IF o = "hang" THEN "hung_exists"
             ELSE IF o = "oserror" THEN "raised_exists"
             ELSE IF SessionExists(o) THEN "capture"
             ELSE "exit"
    /\ UNCHANGED << capSite, current_output, result, alive >>

\* A tick that checks liveness before the deadline.
Tick_LivenessFirst ==
  /\ pc = "tick"
  /\ IF alive
     THEN IF now - start_time > MaxWait
          THEN TimeoutBranch(now - start_time)
          ELSE ExistsBranch(now - start_time)
     ELSE ExistsBranch(now - start_time)
  /\ UNCHANGED << start_time, command_sent, pre_command_output, last_output,
                  output_changed, command_seen, allSame, sawPrompt, fnVars, cliVars >>

\* Lines 81-90: the head of a tick: elapsed is computed, the deadline is checked
\* first, then the session's existence.
Tick ==
  /\ pc = "tick"
  /\ IF now - start_time > MaxWait
     THEN TimeoutBranch(now - start_time)
     ELSE ExistsBranch(now - start_time)
  /\ UNCHANGED << start_time, command_sent, pre_command_output, last_output,
                  output_changed, command_seen, allSame, sawPrompt, fnVars, cliVars >>

\* An exit branch that returns the trim of the capture it already has.
ExitCapture_Stale ==
  /\ pc = "exit"
  /\ pc' = "done"
  /\ result' =
       Return(TrimOutputToCommand(last_output, command_sent), FALSE, TRUE)
  /\ UNCHANGED << now, start_time, elapsed, command_sent, pre_command_output,
                  last_output, current_output, output_changed, command_seen,
                  alive, capSite, allSame, sawPrompt, fnVars, cliVars >>

\* Lines 91-92: the session is gone: one more capture, and the return.
ExitCapture ==
  /\ pc = "exit"
  /\ \E d \in 0 .. CallTicks, c \in Captures(alive) :
       /\ now' = now + d
       /\ capSite' = "exit"
       /\ current_output' = c.text
       /\ IF c.raised
          THEN /\ pc' = "raised_capture"
               /\ result' = result
          ELSE /\ pc' = "done"
               /\ result' =
                    Return(TrimOutputToCommand(c.text, command_sent), FALSE, TRUE)
  /\ UNCHANGED << start_time, elapsed, command_sent, pre_command_output,
                  last_output, output_changed, command_seen, alive, allSame,
                  sawPrompt, fnVars, cliVars >>

\* Lines 96-97: command_seen after a capture.
CommandSeenNext(seen, text, command) ==
  seen \/ (Truthy(command) /\ Contains(text, command))

\* An output_changed that follows the latest comparison.
OutputChangedNext_Reset(changed, text, last) == text # last

\* Lines 100-101: output_changed after a capture.
OutputChangedNext(changed, text, last) == changed \/ text # last

\* A prompt check that does not wait for a latch.
CheckPrompts_Unlatched(changed, seen, trimmed) == trimmed # Empty

\* Line 106: check_prompts
CheckPrompts(changed, seen, trimmed) == (changed \/ seen) /\ trimmed # Empty

\* Lines 94-115: the capture of a tick, the two latches and the prompt check.
LoopCapture ==
  /\ pc = "capture"
  /\ \E d \in 0 .. CallTicks, c \in Captures(alive) :
       LET seen == CommandSeenNext(command_seen, c.text, command_sent)
           changed == OutputChangedNext(output_changed, c.text, last_output)
           trimmed_output == TrimOutputToCommand(c.text, command_sent)
           check_prompts == CheckPrompts(changed, seen, trimmed_output)
       IN  /\ now' = now + d
           /\ IF c.raised
              THEN /\ pc' = "raised_capture"
                   /\ UNCHANGED << current_output, command_seen, output_changed,
                                   last_output, result, capSite, allSame,
                                   sawPrompt >>
              ELSE /\ current_output' = c.text
                   /\ command_seen' = seen
                   /\ output_changed' = changed
                   /\ last_output' =
                        IF c.text # last_output THEN c.text ELSE last_output
                   /\ capSite' = "loop"
                   /\ allSame' = (allSame /\ c.text = pre_command_output)
                   /\ sawPrompt' = (sawPrompt \/ HasPromptLine(c.text))
                   /\ IF check_prompts /\ PromptMatches(trimmed_output)
                      THEN /\ pc' = "done"
                           /\ result' = Return(trimmed_output, FALSE, FALSE)
                      ELSE /\ pc' = "sleep"
                           /\ result' = result
  /\ UNCHANGED << start_time, elapsed, command_sent, pre_command_output, alive,
                  fnVars, cliVars >>

\* A loop that goes on after the return.
Sleep_AfterReturn ==
  /\ pc \in {"sleep", "done"}
  /\ pc' = "tick"
  /\ now' = now + PollInterval
  /\ UNCHANGED << start_time, elapsed, command_sent, pre_command_output,
                  last_output, current_output, output_changed, command_seen,
                  result, alive, capSite, allSame, sawPrompt, fnVars, cliVars >>

\* Line 117: time.sleep(poll_interval), then the next tick.
Sleep ==
  /\ pc = "sleep"
  /\ pc' = "tick"
  /\ now' = now + PollInterval
  /\ UNCHANGED << start_time, elapsed, command_sent, pre_command_output,
                  last_output, current_output, output_changed, command_seen,
                  result, alive, capSite, allSame, sawPrompt, fnVars, cliVars >>

\* The call is still running: it has neither returned nor raised, and it is not
\* blocked in a run that has no timeout.
Running == pc \in {"start", "tick", "exit", "capture", "sleep"}

\* The program in the session ends while the call is running: tmux drops the
\* session, and has-session and capture-pane fail from then on.
SessionExit ==
  /\ Running
  /\ alive
  /\ alive' = FALSE
  /\ UNCHANGED << pc, now, start_time, elapsed, command_sent,
                  pre_command_output, last_output, current_output,
                  output_changed, command_seen, result, capSite, allSame,
                  sawPrompt, fnVars, cliVars >>

\* The steps of wait_for_output_completion itself.
PollStep == Start \/ Tick \/ ExitCapture \/ LoopCapture \/ Sleep

Next == PollStep \/ SessionExit

Spec == Init /\ [][Next]_vars

\* The interpreter keeps running the call: a step of the call that can be taken
\* is taken.  Nothing is assumed of the session.
FairSpec == Spec /\ WF_vars(PollStep)

\* ------------------------------------------------ the helpers on their own

\* The texts of at most n characters over an alphabet.
TextsUpTo(alphabet, n) == UNION { [1 .. k -> alphabet] : k \in 0 .. n }

\* No call of wait_for_output_completion is running.
PollIdle ==
  /\ pc = "idle"
  /\ now = 0
  /\ start_time = 0
  /\ elapsed = 0
  /\ command_sent = None
  /\ pre_command_output = None
  /\ last_output = Empty
  /\ current_output = Empty
  /\ output_changed = FALSE
  /\ command_seen = FALSE
  /\ result = NoResult
  /\ alive = FALSE
  /\ capSite = "none"
  /\ allSame = TRUE
  /\ sawPrompt = FALSE

\* _trim_output_to_command(output, command) for every output of at most
\* MaxTrimLen characters and every command of at most MaxCmdLen, or None.
InitTrim ==
  /\ PollIdle
  /\ CliIdle
  /\ fpc = "trim"
  /\ fText \in TextsUpTo({Letter_c, Letter_h, NL}, MaxTrimLen)
  /\ fCmd \in TextsUpTo({Letter_c, Letter_h, NL}, MaxCmdLen) \cup {None}
  /\ fOut = Empty
  /\ fOut2 = Empty

TrimCall ==
  /\ fpc = "trim"
  /\ fpc' = "trimmed"
  /\ fOut' = TrimOutputToCommand(fText, fCmd)
  /\ UNCHANGED << pollVars, cliVars, fText, fCmd, fOut2 >>

NextTrim == TrimCall

SpecTrim == InitTrim /\ [][NextTrim]_vars

\* strip_ansi_escape_sequences(text) for every text of at most MaxAnsiLen
\* characters over ESC, "[", "0", "$" and "m", and the function applied to its
\* own result.
InitAnsi ==
  /\ PollIdle
  /\ CliIdle
  /\ fpc = "ansi"
  /\ fText \in TextsUpTo({ESC, LBracket, Zero, Dollar, Letter_m}, MaxAnsiLen)
  /\ fCmd = None
  /\ fOut = Empty
  /\ fOut2 = Empty

StripOnce ==
  /\ fpc = "ansi"
  /\ fpc' = "once"
  /\ fOut' = StripAnsiEscapeSequences(fText)
  /\ UNCHANGED << pollVars, cliVars, fText, fCmd, fOut2 >>

StripTwice ==
  /\ fpc = "once"
  /\ fpc' = "twice"
  /\ fOut2' = StripAnsiEscapeSequences(fOut)
  /\ UNCHANGED << pollVars, cliVars, fText, fCmd, fOut >>

NextAnsi == StripOnce \/ StripTwice

SpecAnsi == InitAnsi /\ [][NextAnsi]_vars

\* ------------------------------------------------------ the command line

\* The variables of a call of wait_for_output_completion, the session apart.
callVars ==
  << pc, now, start_time, elapsed, command_sent, pre_command_output,
     last_output, current_output, output_changed, command_seen, result,
     capSite, allSame, sawPrompt >>

\* subprocess.run(tmux_cmd, capture_output=True, text=True, timeout=5)
MutateTimeout == << 5 >>

\* The outcomes of "tmux new-session -d -s NAME ..." and of "tmux send-keys -t
\* NAME ...": tmux exits 0 for a create only if the name is free, and for a
\* send only if the session is live.
MutateOutcomes(kind, live) ==
  IF (kind = "new") = live
  THEN RunOutcomes(MutateTimeout) \ {"exit0"}
  ELSE RunOutcomes(MutateTimeout)

\* Whether the run has created the session: a create that exits 0 has, a
\* create under a free name that is killed at its timeout may have.
Created(kind, live, outcome) ==
  IF kind = "new" /\ ~live
  THEN IF outcome = "exit0" THEN {TRUE}
       ELSE IF outcome = "expired" THEN BOOLEAN
       ELSE {FALSE}
  ELSE {FALSE}

\* A command body that goes on whatever session_exists returned.
Precondition_Ignored(kind, exists) == TRUE

\* new-tmux-session goes on if the session does not exist (line 176),
\* send-keys if it does (line 239).
Precondition(kind, exists) == IF kind = "new" THEN ~exists ELSE exists

\* A command body that does not look at the return code.
MutateOk_IgnoreStatus(outcome) == outcome \in {"exit0", "exitN"}

\* The create or send run returned with return code 0.
MutateOk(outcome) == outcome = "exit0"

\* send-keys with the exit codes of new-tmux-session.
ExitCode_AsNew(kind, timed_out, session_exited) ==
  IF session_exited THEN 0 ELSE IF timed_out THEN 2 ELSE 0

\* The exit status after the poll: sys.exit(0) (line 217) or sys.exit(1) (line
\* 273) if session_exited, sys.exit(2) elif timed_out, else the command body
\* ends and the status is 0.
ExitCode(kind, timed_out, session_exited) ==
  IF session_exited THEN (IF kind = "new" THEN 0 ELSE 1)
  ELSE IF timed_out THEN 2
  ELSE 0

\* sys.exit(code), or an exception that nothing catches (status 1).
Exit(p, code) ==
  /\ cpc' = [cpc EXCEPT ![p] = "exited"]
  /\ exit_code' = [exit_code EXCEPT ![p] = << code >>]

Goto(p, position) ==
  /\ cpc' = [cpc EXCEPT ![p] = position]
  /\ UNCHANGED exit_code

\* Lines 176-178 and 239-241: the session_exists call at the head of the command
\* body, and the exit with status 1 if the precondition fails.
CliCheck(p) ==
  /\ cpc[p] = "check"
  /\ \E o \in ExistsOutcomes(alive) :
       IF o = "hang" THEN Goto(p, "hung") /\ UNCHANGED found
       ELSE IF o = "oserror" THEN Exit(p, 1) /\ UNCHANGED found
       ELSE /\ found' = [found EXCEPT
                           ![p] = IF SessionExists(o) THEN "yes" ELSE "no"]
            /\ IF Precondition(ckind[p], SessionExists(o))
               THEN Goto(p, IF ckind[p] = "new" THEN "mutate" ELSE "precapture")
               ELSE Exit(p, 1)
  /\ ncalls' = [ncalls EXCEPT ![p] = @ + 1]
  /\ UNCHANGED << pollVars, fnVars, ckind, ccmd, cpre, nmutate, mout, polled,
                  printed, ncreated >>

\* Line 244: pre_command_output = capture_tmux_output(target_session)
CliPreCapture(p) ==
  /\ cpc[p] = "precapture"
  /\ \E c \in Captures(alive) :
       IF c.raised THEN Exit(p, 1) /\ UNCHANGED cpre
       ELSE Goto(p, "mutate") /\ cpre' = [cpre EXCEPT ![p] = c.text]
  /\ ncalls' = [ncalls EXCEPT ![p] = @ + 1]
  /\ UNCHANGED << pollVars, fnVars, ckind, ccmd, found, nmutate, mout, polled,
                  printed, ncreated >>

\* Lines 192-199 and 252-259: the create or send run; a return code other than
\* 0 and TimeoutExpired end the command with status 1, an OSError is not caught.
CliMutate(p) ==
  /\ cpc[p] = "mutate"
  /\ \E o \in MutateOutcomes(ckind[p], alive) :
       \E created \in Created(ckind[p], alive, o) :
         /\ mout' = [mout EXCEPT ![p] = o]
         /\ alive' = (alive \/ created)
         /\ ncreated' = IF created THEN ncreated + 1 ELSE ncreated
         /\ IF MutateOk(o)
            THEN Goto(p, IF ckind[p] = "new" THEN "settle" ELSE "call_poll")
            ELSE Exit(p, 1)
  /\ nmutate' = [nmutate EXCEPT ![p] = @ + 1]
  /\ ncalls' = [ncalls EXCEPT ![p] = @ + 1]
  /\ UNCHANGED << callVars, fnVars, ckind, ccmd, cpre, found, polled,
                  printed >>

\* Lines 202-207: time.sleep(0.1), then the second session_exists call.
CliRecheck(p) ==
  /\ cpc[p] = "settle"
  /\ \E o \in ExistsOutcomes(alive) :
       IF o = "hang" THEN Goto(p, "hung")
       ELSE IF o = "oserror" THEN Exit(p, 1)
       ELSE IF SessionExists(o) THEN Goto(p, "call_poll")
       ELSE Exit(p, 1)
  /\ ncalls' = [ncalls EXCEPT ![p] = @ + 1]
  /\ UNCHANGED << pollVars, fnVars, ckind, ccmd, cpre, found, nmutate, mout,
                  polled, printed, ncreated >>

\* Lines 210 and 262-266: the call of wait_for_output_completion, with the
\* command or the keys as command_sent, and with the earlier capture as
\* pre_command_output in send-keys only.
CliCallPoll(p) ==
  /\ cpc[p] = "call_poll"
  /\ pc = "idle"
  /\ pc' = "start"
  /\ command_sent' = ccmd[p]
  /\ pre_command_output' = IF ckind[p] = "new" THEN None ELSE cpre[p]
  /\ polled' = [polled EXCEPT ![p] = TRUE]
  /\ Goto(p, "poll")
  /\ UNCHANGED << now, start_time, elapsed, last_output, current_output,
                  output_changed, command_seen, result, alive, capSite,
                  allSame, sawPrompt, fnVars, ckind, ccmd, cpre, found, ncalls,
                  nmutate, mout, printed, ncreated >>

\* Lines 213 and 269: click.echo(output, nl=False)
CliPrint(p) ==
  /\ cpc[p] = "poll"
  /\ pc = "done"
  /\ printed' = [printed EXCEPT ![p] = Append(@, result.text)]
  /\ Goto(p, "print")
  /\ UNCHANGED << pollVars, fnVars, ckind, ccmd, cpre, found, ncalls, nmutate,
                  mout, polled, ncreated >>

\* Lines 215-220 and 271-276.
CliExit(p) ==
  /\ cpc[p] = "print"
  /\ Exit(p, ExitCode(ckind[p], result.timed_out, result.session_exited))
  /\ UNCHANGED << pollVars, fnVars, ckind, ccmd, cpre, found, ncalls, nmutate,
                  mout, polled, printed, ncreated >>

\* An OSError out of wait_for_output_completion is caught nowhere: the command
\* ends with a traceback and status 1, and prints no output.
CliPollRaised(p) ==
  /\ cpc[p] = "poll"
  /\ pc \in {"raised_capture", "raised_exists"}
  /\ Exit(p, 1)
  /\ UNCHANGED << pollVars, fnVars, ckind, ccmd, cpre, found, ncalls, nmutate,
                  mout, polled, printed, ncreated >>

\* The program in the session ends while a command body is on its way to the
\* poll.
SessionExitBeforePoll ==
  /\ alive
  /\ \E p \in Procs :
       cpc[p] \in {"check", "precapture", "mutate", "settle", "call_poll"}
  /\ alive' = FALSE
  /\ UNCHANGED << callVars, fnVars, cliVars >>

\* Invocations are about to run, one subcommand and one argument each; no
\* call of wait_for_output_completion has started.
CliStart(kinds, args) ==
  /\ pc = "idle"
  /\ now = 0
  /\ start_time = 0
  /\ elapsed = 0
  /\ command_sent = None
  /\ pre_command_output = None
  /\ last_output = Empty
  /\ current_output = Empty
  /\ output_changed = FALSE
  /\ command_seen = FALSE
  /\ result = NoResult
  /\ alive \in BOOLEAN
  /\ capSite = "none"
  /\ allSame = TRUE
  /\ sawPrompt = FALSE
  /\ FnIdle
  /\ ckind = kinds
  /\ cpc = [p \in Procs |-> IF kinds[p] = "off" THEN "off" ELSE "check"]
  /\ ccmd = args
  /\ cpre = [p \in Procs |-> Empty]
  /\ found = [p \in Procs |-> "none"]
  /\ ncalls = [p \in Procs |-> 0]
  /\ nmutate = [p \in Procs |-> 0]
  /\ mout = [p \in Procs |-> "none"]
  /\ polled = [p \in Procs |-> FALSE]
  /\ printed = [p \in Procs |-> << >>]
  /\ exit_code = [p \in Procs |-> << >>]
  /\ ncreated = 0

\* One invocation of new-tmux-session or of send-keys, with "" or "c" as its
\* argument.
InitCli ==
  \E kind \in {"new", "send"}, arg \in {Empty, << Letter_c >>} :
    CliStart([p \in Procs |-> IF p = 1 THEN kind ELSE "off"],
             [p \in Procs |-> IF p = 1 THEN arg ELSE Empty])

CliStep(p) ==
  \/ CliCheck(p)
  \/ CliPreCapture(p)
  \/ CliMutate(p)
  \/ CliRecheck(p)
  \/ CliCallPoll(p)
  \/ CliPrint(p)
  \/ CliExit(p)
  \/ CliPollRaised(p)

NextCli ==
  \/ \E p \in Procs : CliStep(p)
  \/ PollStep
  \/ SessionExit
  \/ SessionExitBeforePoll

SpecCli == InitCli /\ [][NextCli]_vars

\* NProcs invocations of new-tmux-session for the same session name at once.
InitRace ==
  CliStart([p \in Procs |-> "new"], [p \in Procs |-> << Letter_c >>])

\* The invocations up to their call of wait_for_output_completion, their steps
\* interleaved in any order.
NextRace ==
  \/ \E p \in Procs : CliCheck(p) \/ CliMutate(p) \/ CliRecheck(p)
  \/ SessionExitBeforePoll

SpecRace == InitRace /\ [][NextRace]_vars

\* ------------------------------------------------------------ the claims

Completed == result.returned /\ ~result.timed_out /\ ~result.session_exited

TimedOut == result.returned /\ result.timed_out /\ ~result.session_exited

SessionExited == result.returned /\ ~result.timed_out /\ result.session_exited

\* The sent text is already in the baseline the caller supplied.
CommandInBaseline ==
  Truthy(command_sent) /\ Contains(pre_command_output, command_sent)

\* C1: the deadline check comes first in every tick: a tick that begins with
\* elapsed > max_wait_sec never gets to the liveness check or to the prompt
\* check, and a call that returns from such a tick returns TimedOut, whether or
\* not the session exists and whatever the pane shows.
C1_DeadlineFirst ==
  /\ pc \in {"exit", "capture", "sleep"} => elapsed <= MaxWait
  /\ (result.returned /\ elapsed > MaxWait) => TimedOut

\* C1: a call has returned TimedOut from a tick that began past the deadline
\* with the session gone.
C1_Witness == TimedOut /\ elapsed > MaxWait /\ ~alive /\ capSite = "timeout"

C3_EveryInvocationBounded == pc # "hung_exists"

\* C4: capture_tmux_output never propagates a failure of the external tool: the
\* call of wait_for_output_completion is never ended by an exception out of a
\* capture.
C4_CaptureNeverPropagates == pc # "raised_capture"

\* C5: when the exists-check of a tick that began before the deadline reports
\* the session absent, the next step of the call is one more capture, and if
\* that returns, the call returns SessionExited with the trim of that capture;
\* SessionExited is returned in no other way.
C5_ExitedWithFreshCapture ==
  /\ [](pc = "exit" => (~result.returned /\ elapsed <= MaxWait))
  /\ [](SessionExited =>
          /\ capSite = "exit"
          /\ elapsed <= MaxWait
          /\ result.text = TrimOutputToCommand(current_output, command_sent))
  /\ [][(pc = "exit" /\ pc' # "exit") =>
          \/ pc' = "raised_capture"
          \/ (pc' = "done" /\ SessionExited' /\ capSite' = "exit")]_vars

\* C5: SessionExited was returned although the pane last seen ended in a prompt.
C5_Witness ==
  SessionExited /\ capSite = "exit" /\ HasPromptLine(last_output)

\* C6: while the session is alive and no capture has had a last line ending in
\* a prompt pattern, the call is on its way to TimedOut: it is running, or it
\* has returned TimedOut with the trim of the capture taken when the deadline
\* was detected.
C6_AliveNoPromptEndsTimedOut ==
  (alive /\ ~sawPrompt) =>
    \/ Running
    \/ /\ TimedOut
       /\ capSite = "timeout"
       /\ result.text = TrimOutputToCommand(current_output, command_sent)

\* C7: the call returns with exactly one of the three outcomes (timed_out and
\* session_exited are never both true), and once it has returned nothing
\* changes any more: no probe, no state change, no second return.
C7_OneOutcomeOnce ==
  /\ [](result.returned <=> pc = "done")
  /\ [](result.returned => ~(result.timed_out /\ result.session_exited))
  /\ [][result.returned => UNCHANGED vars]_vars

\* C7: the call has returned Completed.
C7_Witness == pc = "done" /\ Completed /\ capSite = "loop"

\* The lines of the text handed to _trim_output_to_command that hold the
\* command.
TrimHits ==
  LET lines == SplitLines(fText)
  IN  {i \in 1 .. Len(lines) : Contains(lines[i], fCmd)}

\* C8: for a non-empty sent text that occurs in the lines i1 < ... < ik of the
\* output, the result is the lines from ik to the end, joined in order, and its
\* first line holds the sent text.
C8_LastOccurrenceWins ==
  (fpc = "trimmed" /\ Truthy(fCmd) /\ TrimHits # {}) =>
    LET lines == SplitLines(fText)
    IN  /\ fOut = JoinLines(SubSeq(lines, Max(TrimHits), Len(lines)))
        /\ Contains(SplitLines(fOut)[1], fCmd)

\* C8: a trim of an output with two lines that hold the command, which dropped
\* the first of them.
C8_Witness ==
  /\ fpc = "trimmed"
  /\ Truthy(fCmd)
  /\ Cardinality(TrimHits) >= 2
  /\ fOut # fText

\* C9: the output comes back unchanged when the sent text is None or empty,
\* when the output is empty, and when no line of the output holds the sent text.
C9_UnchangedWithoutCommand ==
  (fpc = "trimmed" /\ (~Truthy(fCmd) \/ fText = Empty \/ TrimHits = {})) =>
    fOut = fText

\* C9: a trim of a non-empty output by a non-empty command that no line holds.
C9_Witness ==
  /\ fpc = "trimmed"
  /\ Truthy(fCmd)
  /\ fText # Empty
  /\ TrimHits = {}
  /\ fOut = fText

\* C10: strip_ansi_escape_sequences applied twice gives what it gives applied
\* once.
C10_Idempotent == fpc = "twice" => fOut2 = fOut

\* The characters of a text.
Chars(s) == {s[i] : i \in 1 .. Len(s)}

\* Every escape byte of the text begins a complete control sequence.
EveryEscapeComplete(s) ==
  \A i \in 1 .. Len(s) : s[i] = ESC => MatchEnd(s, i) > 0

\* C11 as stated: the result of strip_ansi_escape_sequences holds no escape
\* byte, whatever the input.
C11_NoEscapeLeft == fpc = "once" => ESC \notin Chars(fOut)

\* C11 amended: the result holds no escape byte when every escape byte of the
\* input begins a complete control sequence.
C11_NoEscapeLeftOfCompleteSequences ==
  (fpc = "once" /\ EveryEscapeComplete(fText)) => ESC \notin Chars(fOut)

\* C11: a text that holds a complete control sequence and other characters was
\* stripped of the sequence.
C11_Witness ==
  /\ fpc = "once"
  /\ EveryEscapeComplete(fText)
  /\ ESC \in Chars(fText)
  /\ fOut # Empty
  /\ ESC \notin Chars(fOut)

\* The state right after the capture and prompt check of a tick (lines 94-115).
LoopTickEnded == capSite = "loop" /\ pc \in {"sleep", "done"}

\* The trim of the capture of that tick.
TrimmedNow == TrimOutputToCommand(current_output, command_sent)

\* Prompt checking is enabled at that tick: a latch is true and the trimmed
\* capture is not empty.
CheckEnabled == (output_changed \/ command_seen) /\ TrimmedNow # Empty

\* The text without its trailing whitespace.
RStrip(s) ==
  LET keep == {i \in 1 .. Len(s) : s[i] \notin Whitespace}
  IN  IF keep = {} THEN Empty ELSE SubSeq(s, 1, Max(keep))

\* The last line of a text, its trailing whitespace stripped.
LiteralLastLine(t) == LET lines == SplitLines(t) IN RStrip(lines[Len(lines)])

\* The last line of a text that is not blank, its surrounding whitespace
\* stripped; empty when every line is blank.
LastNonBlankLine(t) ==
  LET lines == SplitLines(t)
      nonblank == {i \in 1 .. Len(lines) : Strip(lines[i]) # Empty}
  IN  IF nonblank = {} THEN Empty ELSE Strip(lines[Max(nonblank)])

\* The prompt patterns as a set: no order.
PatternSet == {PromptPatterns[i] : i \in 1 .. Len(PromptPatterns)}

EndsWithPattern(line) == \E pattern \in PatternSet : EndsWith(line, pattern)

\* C12: once prompt checking is enabled, a trimmed capture whose last line
\* (blank lines after it and trailing whitespace left aside) ends with "$", "#"
\* or ">" makes the tick return Completed.
C12_ShellPromptsComplete ==
  (/\ LoopTickEnded
   /\ CheckEnabled
   /\ \E ch \in {Dollar, Hash, Greater} :
        EndsWith(LastNonBlankLine(TrimmedNow), << ch >>))
    => Completed

\* C15: Completed is returned only from a tick at which output_changed or
\* command_seen holds and the trimmed capture is not empty; a tick with both
\* latches false or an empty trimmed capture goes on to the next tick.
C15_PromptCheckGated ==
  /\ Completed => CheckEnabled
  /\ (LoopTickEnded /\ ~CheckEnabled) => pc = "sleep"

\* C15: a tick captured a pane ending in a prompt with both latches false, and
\* the call went on polling.
C15_Witness ==
  /\ LoopTickEnded
  /\ ~output_changed
  /\ ~command_seen
  /\ EndsWithPattern(LastNonBlankLine(TrimmedNow))
  /\ pc = "sleep"

\* C16: command_seen and output_changed are one-way latches: no step takes
\* either of them from true to false.
C16_LatchesOneWay ==
  [][(command_seen => command_seen') /\ (output_changed => output_changed')]_vars

\* C16: output_changed is still true at a tick whose capture is the baseline
\* again, after a capture that differed from it.
C16_Witness ==
  /\ LoopTickEnded
  /\ pre_command_output # None
  /\ ~allSame
  /\ current_output = pre_command_output
  /\ output_changed

\* C17 as stated: at a tick with prompt checking enabled the call returns
\* Completed exactly if the last line of the trimmed capture, its trailing
\* whitespace stripped and then sanitized, ends with one of the five patterns,
\* and the text returned is the whole trimmed capture.
C17_LastLineDecides ==
  (LoopTickEnded /\ CheckEnabled) =>
    /\ Completed <=>
         EndsWithPattern(StripAnsiEscapeSequences(LiteralLastLine(TrimmedNow)))
    /\ Completed => result.text = TrimmedNow

\* C17 amended: the line that decides is the last line that is not blank (the
\* last line of the trimmed capture once the whitespace around the whole
\* capture, blank lines included, is stripped), stripped and then sanitized;
\* the order of the patterns plays no part, and the text returned is the whole
\* trimmed capture.
C17_LastNonBlankLineDecides ==
  (LoopTickEnded /\ CheckEnabled) =>
    /\ Completed <=>
         EndsWithPattern(StripAnsiEscapeSequences(LastNonBlankLine(TrimmedNow)))
    /\ Completed => result.text = TrimmedNow

\* C17: Completed was returned for a capture of several lines that ends in a
\* blank line, with the whole trimmed capture as text.
C17_Witness ==
  /\ LoopTickEnded
  /\ Completed
  /\ LiteralLastLine(TrimmedNow) = Empty
  /\ Len(SplitLines(result.text)) > 2

\* Whether a tick with the latches as they are would return Completed for a
\* capture.
WouldComplete(text) ==
  LET trimmed == TrimOutputToCommand(text, command_sent)
  IN  /\ (output_changed \/ command_seen)
      /\ trimmed # Empty
      /\ EndsWithPattern(StripAnsiEscapeSequences(LastNonBlankLine(trimmed)))

\* C19: escape sequences in the pane do not change the classification of a
\* tick: it returns Completed exactly if it would for the same pane without
\* its escape sequences.
C19_EscapesDoNotMatter ==
  LoopTickEnded =>
    (Completed <=> WouldComplete(StripAnsiEscapeSequences(current_output)))

\* The first session_exists call of an invocation found its precondition
\* violated: the session is there for new-tmux-session, or missing for
\* send-keys.
Violation(p) ==
  \/ ckind[p] = "new" /\ found[p] = "yes"
  \/ ckind[p] = "send" /\ found[p] = "no"

\* C13: an invocation whose precondition is violated has exited with status 1
\* after that single session_exists call: it has issued no create or send run,
\* has not called wait_for_output_completion, has printed no output and has
\* made no second call.
C13_ViolationExitsAtOnce ==
  \A p \in Procs :
    Violation(p) =>
      /\ cpc[p] = "exited"
      /\ exit_code[p] = << 1 >>
      /\ ncalls[p] = 1
      /\ nmutate[p] = 0
      /\ ~polled[p]
      /\ printed[p] = << >>
      /\ pc = "idle"

\* C13: send-keys to a session that does not exist has exited with status 1.
C13_Witness ==
  \E p \in Procs :
    /\ ckind[p] = "send"
    /\ found[p] = "no"
    /\ exit_code[p] = << 1 >>

\* C14: an invocation whose poll has returned prints the text of the result
\* and then exits with status 2 for TimedOut, with status 0 (new-tmux-session)
\* or 1 (send-keys) for SessionExited, and with status 0 for Completed.
C14_ExitCodeFollowsOutcome ==
  \A p \in Procs :
    /\ cpc[p] = "print" =>
         printed[p] = << result.text >> /\ exit_code[p] = << >>
    /\ (cpc[p] = "exited" /\ polled[p] /\ result.returned) =>
         /\ printed[p] = << result.text >>
         /\ TimedOut => exit_code[p] = << 2 >>
         /\ SessionExited =>
              exit_code[p] = << IF ckind[p] = "new" THEN 0 ELSE 1 >>
         /\ Completed => exit_code[p] = << 0 >>

\* C14: a send-keys invocation whose poll ended SessionExited has exited with
\* status 1 after printing the text.
C14_Witness ==
  \E p \in Procs :
    /\ ckind[p] = "send"
    /\ cpc[p] = "exited"
    /\ SessionExited
    /\ printed[p] = << result.text >>
    /\ exit_code[p] = << 1 >>

\* C18: an invocation issues its create or send run at most once and only
\* before the poll; an invocation that has called wait_for_output_completion
\* has issued exactly one such run, which returned 0; an invocation whose run
\* failed or timed out has exited with status 1 without calling it; and no
\* step of wait_for_output_completion issues such a run or creates a session.
C18_MutateOnceBeforePoll ==
  /\ [](\A p \in Procs :
          /\ nmutate[p] <= 1
          /\ polled[p] => (nmutate[p] = 1 /\ mout[p] = "exit0")
          /\ mout[p] \in {"exitN", "expired", "oserror"} =>
               (cpc[p] = "exited" /\ exit_code[p] = << 1 >> /\ ~polled[p]))
  /\ [][PollStep =>
          (nmutate' = nmutate /\ ncreated' = ncreated /\ alive' = alive)]_vars

\* C18: an invocation has issued its one create or send run, has polled and has
\* exited.
C18_Witness ==
  \E p \in Procs :
    /\ polled[p]
    /\ nmutate[p] = 1
    /\ cpc[p] = "exited"
    /\ result.returned

\* C20: while tmux has created the session name at most once, at most one of
\* the concurrent new-tmux-session invocations is past its create step, so at
\* most one reaches the poll, and every invocation that has ended before the
\* poll has exit status 1.
C20_OneCreatorAtMost ==
  ncreated <= 1 =>
    /\ Cardinality({p \in Procs : cpc[p] \in {"settle", "call_poll"}}) <= 1
    /\ \A p \in Procs : cpc[p] = "exited" => exit_code[p] = << 1 >>
    /\ \A p \in Procs : cpc[p] \in {"settle", "call_poll"} => mout[p] = "exit0"

\* C20: both invocations passed the exists-check before either created the
\* session; one has reached the poll and the other has exited with status 1
\* because its create run failed.
C20_Witness ==
  /\ ncreated = 1
  /\ \E p, q \in Procs :
       /\ p # q
       /\ cpc[p] = "call_poll"
       /\ found[q] = "no"
       /\ mout[q] = "exitN"
       /\ exit_code[q] = << 1 >>

====
